---- MODULE Spec2Model ----
(***************************************************************************)
(* Wallet, portfolio ledger and price history of the investment backend,   *)
(* as the services in backend/app/services drive them through SQLAlchemy   *)
(* sessions (sessionmaker(autocommit=False, autoflush=False), default      *)
(* expire_on_commit) on PostgreSQL at READ COMMITTED.                      *)
(*                                                                         *)
(* Numbers.  Money (balance, amount_val, net_val) and quantities are       *)
(* integers counting 1/Unit of a whole (Unit = 10^4); fees count           *)
(* 1/(Unit*Unit) (10^-8, the scale of the DECIMAL(18,8) columns); prices   *)
(* are whole quote units.  Python Decimal arithmetic is exact, so every    *)
(* product is computed exactly and rounded only where the code rounds      *)
(* (round(x, 3)) or where the row is stored on the column grid (ToNumeric; *)
(* for money and quantities the model's grid is 1/Unit).                   *)
(***************************************************************************)
EXTENDS Integers, Sequences, FiniteSets, TLC

\* ---------------------------------------------------------------- bounds
\* Calls (service invocations) begun in one behaviour.
MaxCalls == 4

\* save_ohlc calls begun in one behaviour
MaxIngests == 2
\* candles in one answer of the exchange
MaxCandles == 2

\* the clock and the buckets of the stored candles run over 0..MaxNow
MaxNow == 2
\* rows of a price history drawn as an input
MaxRows == 2

\* ------------------------------------------------------- program constants
\* FEE_RATE = Decimal("0.0001") = 1 / FEE_RATE_DEN
FEE_RATE_DEN == 10000
Unit == FEE_RATE_DEN
MINIMUM_INVESTMENT == 10 * Unit
INITIAL_BALANCE == 10 * Unit
\* round(net_value, 3)
ROUND_DIGITS == 3
\* Decimal(data.perc_withdraw) / Decimal(100)
PERCENT == 100
\* timedelta(hours=1), in candle buckets of one hour
PRICE_WINDOW == 1

Sessions == {"s1", "s2"}
Users == {1, 2}
\* user 1 was created with role client (a wallet row seeded with
\* INITIAL_BALANCE), user 2 with another role (no wallet row)
Clients == {1}

\* the users table after the two create_user calls
NoUser == [exists |-> FALSE, email |-> "", role |-> ""]
SeededUsers ==
    [u \in Users |-> [exists |-> TRUE,
                      email |-> IF u = 1 THEN "client@example.com" ELSE "manager@example.com",
                      role |-> IF u \in Clients THEN "client" ELSE "manager"]]

\* inputs
Roles == {"client", "manager"}
Emails == {"client@example.com", "manager@example.com"}
ManagerIds == {0, 1}
Deltas == {-15 * Unit, 10 * Unit}
TradeSymbols == {"btc", "ETH"}
BuyAmounts == {0, 5 * Unit, 10 * Unit}
\* Python's None: an optional field of a request that was not given, a field
\* the exchange's answer leaves empty
None == -1
\* <<qty, perc_withdraw>> of a sell request, qty in 1/Unit; 1.9998 is the
\* quantity a buy of 10 at the seeded price 5 adds to the position, 1.9997
\* leaves the smallest quantity the column holds
SellRequests == {<<None, None>>, <<None, 0>>, <<None, 10>>, <<None, 50>>, <<None, 100>>,
                 <<None, 150>>, <<19998, None>>, <<19997, None>>, <<3 * Unit, None>>,
                 <<-Unit, None>>}
TradeTypes == {"buy", "sell", "hold"}

\* asset_symbol.upper()
Upper(sym) == IF sym = "btc" THEN "BTC" ELSE sym
\* f"{asset_symbol.upper()}{PriceService.SYMBOL_PAIR}"
FullSymbol(sym) == IF Upper(sym) = "BTC" THEN "BTCUSDT"
                   ELSE IF Upper(sym) = "ETH" THEN "ETHUSDT" ELSE "USDT"

\* the price history one save_ohlc call left before trading starts
SeededPrices == << [asset_symbol |-> "BTCUSDT", timestamp |-> 0, interval |-> "1h",
                    open |-> 5, high |-> 5, low |-> 5, close |-> 5] >>

\* PriceService.SYMBOL_PAIR
SYMBOL_PAIR == "USDT"
\* the jobs that call save_ohlc: the scheduler's tick and the manual trigger
Jobs == {"capture_prices", "capture_prices_manually"}
\* symbols of the active assets, and the interval every caller passes
IngestSymbols == {"BTC"}
Intervals == {"1h"}
\* the candles get_ohlc builds from the exchange's answer.  The values are
\* floats, finer than the grid of the DECIMAL(18,8) columns: they count
\* 1/FloatScale of the grid's step
FloatScale == 2
Candles ==
    { [timestamp |-> 0, open |-> 180, high |-> 200, low |-> 180, close |-> 190],
      [timestamp |-> 0, open |-> 190, high |-> 190, low |-> 170, close |-> 180],
      [timestamp |-> 1, open |-> 181, high |-> 201, low |-> 179, close |-> 191] }

VARIABLES
    wallet,         \* table wallet: user_id -> [exists, balance] (committed)
    portfolio,      \* table portfolio: sequence of committed rows
    price_history,  \* table price_history: sequence of committed rows
    now,            \* the clock, in candle buckets
    imap,           \* per session: the Wallet objects of its identity map
    pc,             \* per session: position inside the running call
    call,           \* per session: arguments and locals of the running call
    last,           \* outcome of the call that returned most recently
    applied,        \* per user: sum of the deltas update_balance committed
    ncalls,         \* calls begun so far
    ingest,         \* per ingestion job: position, arguments and locals of save_ohlc
    ingested,       \* the save_ohlc call that ended most recently
    users           \* table users: user_id -> [exists, email, role] (committed)

vars == <<wallet, portfolio, price_history, now, imap, pc, call, last, applied, ncalls,
          ingest, ingested, users>>

\* ------------------------------------------------------------ the session
Unloaded == [loaded |-> FALSE, orig |-> 0, cur |-> 0]

\* session.query(Wallet).filter_by(user_id=u).first(): a row that is already
\* in the identity map and not expired keeps its attribute values (also the
\* unflushed ones); otherwise the object is loaded from the committed row.
\* None (no row) leaves the identity map alone.
QueryWallet(s, u) ==
    IF wallet[u].exists /\ ~imap[s][u].loaded
    THEN [loaded |-> TRUE, orig |-> wallet[u].balance, cur |-> wallet[u].balance]
    ELSE imap[s][u]

\* the flush of session.commit(): one UPDATE per Wallet object whose balance
\* attribute differs from the value it was loaded with
Flushed(s) ==
    [u \in Users |->
        IF imap[s][u].loaded /\ imap[s][u].cur # imap[s][u].orig
        THEN [wallet[u] EXCEPT !.balance = imap[s][u].cur]
        ELSE wallet[u]]

\* expire_on_commit, and the expiry of a rollback: every object is reloaded
\* at its next access
Expired == [u \in Users |-> Unloaded]

\* ------------------------------------------------------------- call frames
NoCall == [op |-> "none", user_id |-> 0, asset_symbol |-> "", amount |-> 0,
           qty |-> 0, net_val |-> 0, fee |-> 0, price |-> 0,
           pre_wallet |-> [exists |-> FALSE, balance |-> 0], pre_portfolio |-> <<>>,
           balance_committed |-> FALSE, email |-> "", role |-> "",
           data_amount_val |-> 0, data_qty |-> None, data_perc_withdraw |-> None,
           total_qty |-> 0]

NoResult == [op |-> "none", user_id |-> 0, asset_symbol |-> "", role |-> "",
             status |-> "none", value |-> 0, amount |-> 0,
             pre_wallet |-> [exists |-> FALSE, balance |-> 0], pre_portfolio |-> <<>>,
             data_amount_val |-> 0, data_qty |-> None, data_perc_withdraw |-> None,
             total_qty |-> 0]

Frame(op, u) == [NoCall EXCEPT !.op = op, !.user_id = u,
                               !.pre_wallet = wallet[u], !.pre_portfolio = portfolio]

Outcome(c, status, value) ==
    [op |-> c.op, user_id |-> c.user_id, asset_symbol |-> c.asset_symbol, role |-> c.role,
     status |-> status, value |-> value,
     amount |-> c.amount, pre_wallet |-> c.pre_wallet, pre_portfolio |-> c.pre_portfolio,
     data_amount_val |-> c.data_amount_val, data_qty |-> c.data_qty,
     data_perc_withdraw |-> c.data_perc_withdraw, total_qty |-> c.total_qty]

\* the call of session s returns (or raises) with this status
Return(s, c, status, value) ==
    /\ pc' = [pc EXCEPT ![s] = "idle"]
    /\ call' = [call EXCEPT ![s] = NoCall]
    /\ last' = Outcome(c, status, value)

\* ------------------------------------------------ WalletService.get_balance
get_balance(s, u) == IF wallet[u].exists THEN QueryWallet(s, u).cur ELSE 0

\* --------------------------------------------- WalletService.update_balance
\* lines 69-75: query, `wallet.balance += amount`, the negative check.  The
\* raise leaves the changed attribute on the object in the identity map; a
\* Wallet made for a missing row is never added to the session.
NewBalance(s, u, amount) == get_balance(s, u) + amount

WalletAdjusted(s, u, amount) ==
    IF wallet[u].exists
    THEN [imap[s] EXCEPT ![u] = [QueryWallet(s, u) EXCEPT !.cur = NewBalance(s, u, amount)]]
    ELSE imap[s]

\* the first part of update_balance inside the call frame c
UpdateBalanceStart(s, c, u, amount) ==
    /\ imap' = [imap EXCEPT ![s] = WalletAdjusted(s, u, amount)]
    /\ IF NewBalance(s, u, amount) < 0
       THEN Return(s, c, "InsufficientFunds", 0)
       ELSE /\ pc' = [pc EXCEPT ![s] = "ub_commit"]
            /\ call' = [call EXCEPT ![s] = c]
            /\ last' = NoResult

BeginUpdateBalance(s, u, amount) ==
    /\ pc[s] = "idle"
    /\ ncalls < MaxCalls
    /\ ncalls' = ncalls + 1
    /\ UpdateBalanceStart(s, [Frame("update_balance", u) EXCEPT !.amount = amount], u, amount)
    /\ UNCHANGED <<wallet, portfolio, price_history, ingest, ingested, now, users, applied>>

\* line 76: session.commit() flushes every changed object of the session
UbCommit(s) ==
    /\ pc[s] = "ub_commit"
    /\ wallet' = Flushed(s)
    /\ imap' = [imap EXCEPT ![s] = Expired]
    /\ applied' = IF wallet[call[s].user_id].exists
                  THEN [applied EXCEPT ![call[s].user_id] = @ + call[s].amount]
                  ELSE applied
    /\ pc' = [pc EXCEPT ![s] = "ub_refresh"]
    /\ call' = [call EXCEPT ![s].balance_committed = wallet[call[s].user_id].exists]
    /\ UNCHANGED <<portfolio, price_history, ingest, ingested, now, users, last, ncalls>>

\* lines 77-78: session.refresh(wallet) and the return; refresh of an object
\* that is not in the session raises InvalidRequestError.  The refreshed
\* object is unchanged, the identity map holds it weakly and `wallet` is the
\* only reference to it: it is gone from the session when the call returns
UbRefresh(s) ==
    /\ pc[s] = "ub_refresh"
    /\ LET u == call[s].user_id IN
       IF ~wallet[u].exists
       THEN /\ Return(s, call[s], "InvalidRequestError", 0)
            /\ UNCHANGED imap
       ELSE /\ imap' = [imap EXCEPT ![s][u] = Unloaded]
            /\ IF call[s].op = "update_balance"
               THEN Return(s, call[s], "ok", wallet[u].balance)
               ELSE /\ pc' = [pc EXCEPT ![s] = "append"]
                    /\ UNCHANGED <<call, last>>
    /\ UNCHANGED <<wallet, portfolio, price_history, ingest, ingested, now, users, applied, ncalls>>

\* ---------------------------------------------------- UserService.create_user
\* a create_user that gives every role a wallet
NeedsWallet_Always(role) == TRUE

\* `if userdata.role == "client"`
NeedsWallet(role) == role = "client"

\* the user_id the database gives the next row of users
NextUserId == CHOOSE u \in Users : ~users[u].exists /\ \A v \in Users : ~users[v].exists => u <= v

\* the email check and the manager check
BeginCreateUser(s, email, role, manager_id) ==
    /\ pc[s] = "idle"
    /\ \E u \in Users : ~users[u].exists
    /\ LET c == [NoCall EXCEPT !.op = "create_user", !.email = email, !.role = role,
                               !.pre_portfolio = portfolio] IN
       IF \E u \in Users : users[u].exists /\ users[u].email = email
       THEN Return(s, c, "EmailRegistered", 0)
       ELSE IF /\ role = "client" /\ manager_id # 0
               /\ ~(manager_id \in Users /\ users[manager_id].exists
                                         /\ users[manager_id].role = "manager")
       THEN Return(s, c, "ManagerNotFound", 0)
       ELSE /\ pc' = [pc EXCEPT ![s] = "cu_user"]
            /\ call' = [call EXCEPT ![s] = c]
            /\ last' = NoResult
    /\ UNCHANGED <<wallet, portfolio, price_history, now, imap, applied, ncalls, ingest,
                   ingested, users>>

\* session.add(user); session.commit(); session.refresh(user): the commit
\* also flushes what the session still holds
CuCommitUser(s, db_ok) ==
    /\ pc[s] = "cu_user"
    /\ imap' = [imap EXCEPT ![s] = Expired]
    /\ IF db_ok
       THEN /\ users' = [users EXCEPT ![NextUserId] =
                            [exists |-> TRUE, email |-> call[s].email, role |-> call[s].role]]
            /\ wallet' = Flushed(s)
            /\ IF NeedsWallet(call[s].role)
               THEN /\ pc' = [pc EXCEPT ![s] = "cu_wallet"]
                    /\ call' = [call EXCEPT ![s].user_id = NextUserId]
                    /\ UNCHANGED last
               ELSE Return(s, [call[s] EXCEPT !.user_id = NextUserId], "ok", 0)
       ELSE /\ Return(s, call[s], "DatabaseError", 0)
            /\ UNCHANGED <<users, wallet>>
    /\ UNCHANGED <<portfolio, price_history, now, applied, ncalls, ingest, ingested>>

\* wallet = Wallet(user_id, balance=INITIAL_BALANCE); session.add(wallet);
\* session.commit()
CuCommitWallet(s, db_ok) ==
    /\ pc[s] = "cu_wallet"
    /\ imap' = [imap EXCEPT ![s] = Expired]
    /\ IF db_ok
       THEN /\ wallet' = [wallet EXCEPT ![call[s].user_id] =
                             [exists |-> TRUE, balance |-> INITIAL_BALANCE]]
            /\ Return(s, call[s], "ok", 0)
       ELSE /\ Return(s, call[s], "DatabaseError", 0)
            /\ UNCHANGED wallet
    /\ UNCHANGED <<portfolio, price_history, now, applied, ncalls, ingest, ingested, users>>

\* --------------------------------------------------------------- arithmetic
Abs(x) == IF x < 0 THEN -x ELSE x

RECURSIVE Pow10(_)
Pow10(n) == IF n = 0 THEN 1 ELSE 10 * Pow10(n - 1)

\* num/den on the integer grid as PostgreSQL stores a numeric: half away
\* from zero (den > 0)
ToNumeric(num, den) ==
    LET q == Abs(num) \div den
        r == Abs(num) % den
        m == IF 2 * r >= den THEN q + 1 ELSE q
    IN IF num < 0 THEN -m ELSE m

\* whole + num/den to the nearest integer, ties to the even one, as Python's
\* round() on a Decimal does (den > 0, any sign of num)
RoundHalfEven(whole, num, den) ==
    LET base == whole + (num \div den)
        r == num % den
    IN IF 2 * r > den THEN base + 1
       ELSE IF 2 * r < den THEN base
       ELSE IF base % 2 = 0 THEN base ELSE base + 1

\* a * num / den for a >= 0, without the product a * num
MulDiv(a, num, den) == (a \div den) * num + ToNumeric((a % den) * num, den)

\* amount_value * fee_rate, in 1/(Unit*Unit)
TransactionFee(amount) == amount * (Unit \div FEE_RATE_DEN)

\* a buy that records the cash spent with a negative sign
BuyNetValue_Negated(amount) == -MulDiv(amount, FEE_RATE_DEN - 1, FEE_RATE_DEN)

\* a buy that records the gross amount
BuyNetValue_NoFee(amount) == amount

\* _handle_buy lines 111-113: net_value = amount_value - transaction_fee on
\* the grid of net_val, qty = net_value / trade_price on the grid of qty
BuyNetValue(amount) == MulDiv(amount, FEE_RATE_DEN - 1, FEE_RATE_DEN)
BuyQty(amount, price) == MulDiv(amount, FEE_RATE_DEN - 1, FEE_RATE_DEN * price)

\* _handle_sell lines 179-183.  a is amount_value = qty * trade_price in
\* 1/(PERCENT*Unit), a >= 0; the result is round(net_value, 3) in 1/Unit,
\* net_value = a - a/FEE_RATE_DEN:
\*   net_value * 10^3 = k + (FEE_RATE_DEN*b - g*k - b) / (FEE_RATE_DEN*g)
\* with g = PERCENT*Unit/10^3 units of a per 0.001, k = a \div g, b = a % g
RoundedNetPos(a) ==
    LET g == (PERCENT * Unit) \div Pow10(ROUND_DIGITS)
        k == a \div g
        b == a % g
    IN (Unit \div Pow10(ROUND_DIGITS))
         * RoundHalfEven(k, FEE_RATE_DEN * b - g * k - b, FEE_RATE_DEN * g)

\* round(x, 3) is symmetric in the sign of x
RoundedNet(a) == IF a < 0 THEN -RoundedNetPos(-a) ELSE RoundedNetPos(a)

\* ------------------------------------------------------ PriceService.get_price
RowsOf(sym) == {i \in 1..Len(price_history) : price_history[i].asset_symbol = FullSymbol(sym)}
Recent(sym) == {i \in RowsOf(sym) : price_history[i].timestamp > now - PRICE_WINDOW}
\* the query ordered by timestamp ascending
Latest_Oldest(S) ==
    {i \in S : \A j \in S : price_history[j].timestamp >= price_history[i].timestamp}

Latest(S) == {i \in S : \A j \in S : price_history[j].timestamp <= price_history[i].timestamp}

\* the closes get_price can return: order_by(timestamp.desc()).first() over
\* the last hour, else over all rows of the symbol; rows that share the
\* newest timestamp are returned in no defined order.  {} is the ValueError.
\* a lookup that never finds a row
get_price_Unavailable(sym) == {}

get_price(sym) ==
    {price_history[i].close : i \in Latest(IF Recent(sym) # {} THEN Recent(sym) ELSE RowsOf(sym))}

\* GET /current_price/{symbol}: get_price on the stored history, the
\* ValueError answered as an error
GetPrice(sym) ==
    /\ \A s \in Sessions : pc[s] = "idle"
    /\ IF get_price(sym) = {}
       THEN last' = [NoResult EXCEPT !.op = "get_price", !.status = "PriceUnavailable"]
       ELSE \E p \in get_price(sym) :
               last' = [NoResult EXCEPT !.op = "get_price", !.status = "ok", !.value = p]
    /\ UNCHANGED <<wallet, portfolio, price_history, now, users, imap, pc, call, applied, ncalls,
                   ingest, ingested>>

\* dt.now(timezone.utc) moves on by one bucket
Tick ==
    /\ now < MaxNow + PRICE_WINDOW + 1
    /\ now' = now + 1
    /\ last' = NoResult
    /\ UNCHANGED <<wallet, portfolio, price_history, imap, pc, call, applied, ncalls,
                   ingest, ingested, users>>

\* -------------------------------------------------- PortfolioService.get_summary
RECURSIVE SumField(_, _)
SumField(rows, f) == IF rows = <<>> THEN 0 ELSE rows[1][f] + SumField(Tail(rows), f)

RowsFor(u, fullsym) ==
    SelectSeq(portfolio, LAMBDA r : r.user_id = u /\ r.asset_symbol = fullsym)

AssetsOf(u) == {portfolio[i].asset_symbol : i \in {j \in 1..Len(portfolio) : portfolio[j].user_id = u}}

\* the aggregate without the zero-quantity case
get_summary_NoZeroCase(u) ==
    [a \in AssetsOf(u) |->
        [total_qty |-> SumField(RowsFor(u, a), "qty"),
         total_value |-> Abs(SumField(RowsFor(u, a), "net_val")),
         total_fees |-> SumField(RowsFor(u, a), "fee")]]

get_summary(u) ==
    [a \in AssetsOf(u) |->
        [total_qty |-> SumField(RowsFor(u, a), "qty"),
         total_value |-> IF SumField(RowsFor(u, a), "qty") = 0 THEN 0
                         ELSE Abs(SumField(RowsFor(u, a), "net_val")),
         total_fees |-> SumField(RowsFor(u, a), "fee")]]

\* ---------------------------------------------------- PortfolioService.get_pnl
\* row.asset_symbol.replace('USDT', '')
BaseSymbol(fullsym) ==
    IF fullsym = "BTCUSDT" THEN "BTC" ELSE IF fullsym = "ETHUSDT" THEN "ETH" ELSE fullsym

\* func.sum(case((Portfolio.trade_type == t, Portfolio.net_val), else_=0))
SumNetVal(rows, t) == SumField(SelectSeq(rows, LAMBDA r : r.trade_type = t), "net_val")

\* a loop that asks get_price for every asset
PnlPriced_All(u) == AssetsOf(u)

\* the assets of the user for which the loop calls get_price
\* (`if current_qty > 0`)
PnlPriced(u) == {a \in AssetsOf(u) : SumField(RowsFor(u, a), "qty") > 0}

\* the dict of one asset, current_price being Decimal(0) or what get_price
\* returned
PnlRow(u, a, current_price) ==
    LET total_invested == SumNetVal(RowsFor(u, a), "buy")
        total_received == SumNetVal(RowsFor(u, a), "sell")
        current_qty == SumField(RowsFor(u, a), "qty")
        pnl == -total_received - total_invested
    IN  [asset_symbol |-> a, total_invested |-> total_invested,
         total_received |-> -total_received, current_qty |-> current_qty,
         current_price |-> current_price,
         pnl |-> IF current_qty > 0 THEN pnl + current_price * current_qty ELSE pnl]

\* the dicts the loop can append for one asset
PnlRows(u, a) ==
    {PnlRow(u, a, p) : p \in IF a \in PnlPriced(u) THEN get_price(BaseSymbol(a)) ELSE {0}}

\* the lists get_pnl(user_id, session) can return, one dict per asset; none
\* when a price it asks for is unavailable (get_price raises)
get_pnl(u) ==
    {rows \in [AssetsOf(u) -> UNION {PnlRows(u, a) : a \in AssetsOf(u)}] :
        \A a \in AssetsOf(u) : rows[a] \in PnlRows(u, a)}

\* ------------------------------------------------- PortfolioService._handle_buy
\* add_transaction with trade_type "buy": the schema (amount_val > 0), the
\* price, the minimum, the balance, the amounts, and update_balance up to
\* its commit
BeginBuy(s, u, sym, amount_val) ==
    /\ pc[s] = "idle"
    /\ ncalls < MaxCalls
    /\ ncalls' = ncalls + 1
    /\ LET c == [Frame("buy", u) EXCEPT !.asset_symbol = FullSymbol(sym),
                                        !.data_amount_val = amount_val] IN
       \/ /\ amount_val <= 0
          /\ Return(s, c, "InvalidRequest", 0)
          /\ UNCHANGED imap
       \/ /\ amount_val > 0
          /\ get_price(sym) = {}
          /\ Return(s, c, "PriceUnavailable", 0)
          /\ UNCHANGED imap
       \/ /\ amount_val > 0
          /\ \E trade_price \in get_price(sym) :
               IF trade_price = 0
               THEN Return(s, c, "PriceUnavailable", 0) /\ UNCHANGED imap
               ELSE IF amount_val < MINIMUM_INVESTMENT
               THEN Return(s, c, "BelowMinimum", 0) /\ UNCHANGED imap
               ELSE IF amount_val > get_balance(s, u)
               THEN Return(s, c, "InsufficientFunds", 0) /\ UNCHANGED imap
               ELSE UpdateBalanceStart(s,
                        [c EXCEPT !.amount = -amount_val,
                                  !.qty = BuyQty(amount_val, trade_price),
                                  !.net_val = BuyNetValue(amount_val),
                                  !.fee = TransactionFee(amount_val),
                                  !.price = trade_price],
                        u, -amount_val)
    /\ UNCHANGED <<wallet, portfolio, price_history, ingest, ingested, now, users, applied>>

\* ------------------------------------------------ PortfolioService._handle_sell
\* the truth value Python gives an optional number: None and 0 are false
Truthy(x) == x # None /\ x # 0

\* the quantity to sell in 1/(PERCENT*Unit): Decimal(data.qty), or
\* total_qty * perc_withdraw / 100
SellQty(qty, perc, total_qty) == IF Truthy(qty) THEN qty * PERCENT ELSE total_qty * perc

\* PortfolioSellRequest.validate_withdraw_or_qty
SellRequestValid(qty, perc) ==
    /\ ~(~Truthy(perc) /\ ~Truthy(qty))
    /\ ~(Truthy(perc) /\ (perc < 0 \/ perc > PERCENT))

\* the sell with the comparison against the position left out
ExceedsHeld_NoCheck(qty, held) == FALSE

\* the sell that also refuses the whole position
ExceedsHeld_OrEqual(qty, held) == qty >= held

\* `qty > Decimal(asset_summary["total_qty"])`
ExceedsHeld(qty, held) == qty > held

\* the position get_summary reports for the symbol (0 when it has no row)
Held(u, fullsym) ==
    IF fullsym \in AssetsOf(u) THEN get_summary(u)[fullsym].total_qty ELSE 0

\* add_transaction with trade_type "sell": the schema validator, the price,
\* the position from get_summary, the quantity, the amounts, and
\* update_balance up to its commit
BeginSell(s, u, sym, qty, perc) ==
    /\ pc[s] = "idle"
    /\ ncalls < MaxCalls
    /\ ncalls' = ncalls + 1
    /\ LET held == Held(u, FullSymbol(sym))
           c == [Frame("sell", u) EXCEPT !.asset_symbol = FullSymbol(sym),
                                         !.data_qty = qty, !.data_perc_withdraw = perc,
                                         !.total_qty = held]
       IN
       \/ /\ ~SellRequestValid(qty, perc)
          /\ Return(s, c, "InvalidRequest", 0)
          /\ UNCHANGED imap
       \/ /\ SellRequestValid(qty, perc)
          /\ get_price(sym) = {}
          /\ Return(s, c, "PriceUnavailable", 0)
          /\ UNCHANGED imap
       \/ /\ SellRequestValid(qty, perc)
          /\ \E trade_price \in get_price(sym) :
               IF trade_price = 0
               THEN Return(s, c, "PriceUnavailable", 0) /\ UNCHANGED imap
               ELSE IF FullSymbol(sym) \notin AssetsOf(u) \/ held <= 0
               THEN Return(s, c, "NoPosition", 0) /\ UNCHANGED imap
               ELSE IF Truthy(qty) /\ ExceedsHeld(qty, held)
               THEN Return(s, c, "InsufficientQuantity", 0) /\ UNCHANGED imap
               ELSE IF ~Truthy(qty) /\ ~Truthy(perc)
               THEN Return(s, c, "InvalidRequest", 0) /\ UNCHANGED imap
               ELSE LET q == SellQty(qty, perc, held)
                        amount_value == q * trade_price
                    IN UpdateBalanceStart(s,
                        [c EXCEPT !.amount = RoundedNet(amount_value),
                                  !.qty = ToNumeric(-q, PERCENT),
                                  !.net_val = RoundedNet(-amount_value),
                                  !.fee = ToNumeric(amount_value, PERCENT),
                                  !.price = trade_price],
                        u, RoundedNet(amount_value))
    /\ UNCHANGED <<wallet, portfolio, price_history, ingest, ingested, now, users, applied>>

\* add_transaction with any other trade_type
BeginOther(s, u) ==
    /\ pc[s] = "idle"
    /\ ncalls < MaxCalls
    /\ ncalls' = ncalls + 1
    /\ Return(s, Frame("hold", u), "InvalidTradeType", 0)
    /\ UNCHANGED <<wallet, portfolio, price_history, ingest, ingested, now, users, imap, applied>>

add_transaction(s, u, trade_type) ==
    \/ /\ trade_type = "buy"
       /\ \E sym \in TradeSymbols, a \in BuyAmounts : BeginBuy(s, u, sym, a)
    \/ /\ trade_type = "sell"
       /\ \E sym \in TradeSymbols, r \in SellRequests : BeginSell(s, u, sym, r[1], r[2])
    \/ /\ trade_type \notin {"buy", "sell"}
       /\ BeginOther(s, u)

\* the Portfolio row of the running trade
Transaction(c) ==
    [user_id |-> c.user_id, asset_symbol |-> c.asset_symbol, trade_type |-> c.op,
     qty |-> c.qty, net_val |-> c.net_val, price |-> c.price, fee |-> c.fee]

\* a statement that rewrites the newest entry instead of inserting one
LedgerWith_Overwrite(ledger, row) ==
    IF ledger = <<>> THEN <<row>> ELSE [ledger EXCEPT ![Len(ledger)] = row]

\* the INSERT session.add(transaction) makes at the commit
LedgerWith(ledger, row) == Append(ledger, row)

\* session.add(transaction); session.commit(); session.refresh(transaction).
\* db_ok = FALSE is the INSERT or the COMMIT failing in the database (a
\* numeric overflow of qty, a lost connection): commit() rolls the
\* transaction back and raises.
AppendTransaction(s, db_ok) ==
    /\ pc[s] = "append"
    /\ IF db_ok
       THEN /\ portfolio' = LedgerWith(portfolio, Transaction(call[s]))
            /\ wallet' = Flushed(s)
            /\ Return(s, call[s], "ok", 0)
       ELSE /\ Return(s, call[s], "DatabaseError", 0)
            /\ UNCHANGED <<wallet, portfolio>>
    /\ imap' = [imap EXCEPT ![s] = Expired]
    /\ UNCHANGED <<price_history, ingest, ingested, now, users, applied, ncalls>>

\* get_db_session's `finally: session.close()`, Database.close_session
Close(s) ==
    /\ pc[s] = "idle"
    /\ imap[s] # Expired
    /\ imap' = [imap EXCEPT ![s] = Expired]
    /\ UNCHANGED <<wallet, portfolio, price_history, ingest, ingested, now, users, pc, call, last, applied, ncalls>>

\* ------------------------------------------------------ PriceService.save_ohlc
Max(a, b) == IF a >= b THEN a ELSE b
Min(a, b) == IF a <= b THEN a ELSE b

\* a float bound to a DECIMAL(18,8) column
ToStored(x) == ToNumeric(x, FloatScale)

\* the answers of exchange.fetch_ohlcv: any sequence of candles
RECURSIVE SeqsUpTo(_, _)
SeqsUpTo(S, n) ==
    IF n = 0 THEN {<<>>}
    ELSE SeqsUpTo(S, n - 1) \cup {Append(q, c) : q \in {r \in SeqsUpTo(S, n - 1) : Len(r) = n - 1}, c \in S}

Payloads == SeqsUpTo(Candles, MaxCandles)

NoRow == [asset_symbol |-> "", timestamp |-> 0, interval |-> "",
          open |-> 0, high |-> 0, low |-> 0, close |-> 0]

\* dirty: the rows whose object in the job's session has a changed `open`
\* that no commit has flushed yet, as [row, open]
NoJob == [pc |-> "idle", asset_symbol |-> "", interval |-> "", payload |-> <<>>,
          candles |-> <<>>, existing |-> 0, loaded |-> NoRow,
          pre_history |-> <<>>, repeated |-> FALSE, dirty |-> {}]

NoIngest == [status |-> "none", asset_symbol |-> "", interval |-> "", payload |-> <<>>,
             pre_history |-> <<>>, repeated |-> FALSE, raised |-> FALSE]

\* f"{asset_symbol}{self.SYMBOL_PAIR}"
full_symbol(asset_symbol) == asset_symbol \o SYMBOL_PAIR

\* save_ohlc without the existence check: every candle takes the `else`
ExistingCandle_NoCheck(symbol, timestamp, interval) == {}

\* session.query(PriceHistory).filter_by(asset_symbol=, timestamp=, interval=):
\* the rows .first() can return ({} when it returns None)
ExistingCandle(symbol, timestamp, interval) ==
    {i \in 1..Len(price_history) :
        /\ price_history[i].asset_symbol = symbol
        /\ price_history[i].timestamp = timestamp
        /\ price_history[i].interval = interval}

\* lines 205-208: the attributes of existing_candle after the merge, as
\* Python values (in 1/FloatScale)
MergedCandle(row, candle) ==
    [open |-> candle.open,
     high |-> Max(row.high * FloatScale, candle.high),
     low |-> Min(row.low * FloatScale, candle.low),
     close |-> candle.close]

\* the UPDATE of the flush: it sets the columns whose attribute differs from
\* the value the object was loaded with
UpdatedRow(cur, loaded, candle) ==
    LET m == MergedCandle(loaded, candle)
        Col(f) == IF m[f] # loaded[f] * FloatScale THEN ToStored(m[f]) ELSE cur[f]
    IN [cur EXCEPT !.open = Col("open"), !.high = Col("high"),
                   !.low = Col("low"), !.close = Col("close")]

\* lines 210-219: the PriceHistory row of a candle that has none
NewRow(symbol, interval, candle) ==
    [asset_symbol |-> symbol, timestamp |-> candle.timestamp, interval |-> interval,
     open |-> ToStored(candle.open), high |-> ToStored(candle.high),
     low |-> ToStored(candle.low), close |-> ToStored(candle.close)]

\* save_ohlc with session.add(price_record) on both branches
WrittenHistory_AlwaysInsert(existing, loaded, symbol, interval, candle) ==
    Append(price_history, NewRow(symbol, interval, candle))

\* the table after the commit of one candle; existing = 0 is `else`
WrittenHistory(existing, loaded, symbol, interval, candle) ==
    IF existing # 0
    THEN [price_history EXCEPT ![existing] = UpdatedRow(@, loaded, candle)]
    ELSE Append(price_history, NewRow(symbol, interval, candle))

\* save_ohlc of job j ends.  Every exception of its body, the ValueError of
\* get_ohlc and the error of a commit alike, is caught by the first handler,
\* `except Exception as ve`, which logs it: nothing is raised to the caller
EndSaveOhlc(j, status, dirty) ==
    /\ ingested' = [status |-> status, asset_symbol |-> ingest[j].asset_symbol,
                    interval |-> ingest[j].interval, payload |-> ingest[j].payload,
                    pre_history |-> ingest[j].pre_history, repeated |-> ingest[j].repeated,
                    raised |-> FALSE]
    /\ ingest' = [ingest EXCEPT ![j] = [NoJob EXCEPT !.dirty = dirty]]

\* lines 186-193: the symbol and the newest stored timestamp (the `since` of
\* the fetch; what the exchange answers is its own choice)
BeginSaveOhlc(j, asset_symbol, interval) ==
    /\ ingest[j].pc = "idle"
    /\ ncalls < MaxIngests
    /\ ncalls' = ncalls + 1
    /\ ingest' = [ingest EXCEPT ![j] = [NoJob EXCEPT !.pc = "fetch",
                                                     !.dirty = ingest[j].dirty,
                                                     !.asset_symbol = full_symbol(asset_symbol),
                                                     !.interval = interval,
                                                     !.pre_history = price_history]]
    /\ UNCHANGED <<wallet, portfolio, price_history, now, users, imap, pc, call, last, applied,
                   ingested>>

\* line 195: get_ohlc returns the candles
FetchOhlc(j, payload) ==
    /\ ingest[j].pc = "fetch"
    /\ LET repeated == /\ ingested.status = "ok"
                       /\ ingested.asset_symbol = ingest[j].asset_symbol
                       /\ ingested.interval = ingest[j].interval
                       /\ ingested.payload = payload
       IN IF payload = <<>>
          THEN /\ ingested' = [status |-> "ok", asset_symbol |-> ingest[j].asset_symbol,
                               interval |-> ingest[j].interval, payload |-> payload,
                               pre_history |-> IF repeated THEN price_history ELSE <<>>,
                               repeated |-> repeated, raised |-> FALSE]
               /\ ingest' = [ingest EXCEPT ![j] = [NoJob EXCEPT !.dirty = ingest[j].dirty]]
          ELSE /\ ingest' = [ingest EXCEPT ![j].pc = "query", ![j].payload = payload,
                                           ![j].candles = payload, ![j].repeated = repeated,
                                           ![j].pre_history = IF repeated THEN price_history ELSE <<>>]
               /\ UNCHANGED ingested
    /\ UNCHANGED <<wallet, portfolio, price_history, now, users, imap, pc, call, last, applied,
                   ncalls>>

\* line 195: get_ohlc raises ValueError; `except Exception as ve` logs it
FetchFails(j) ==
    /\ ingest[j].pc = "fetch"
    /\ EndSaveOhlc(j, "FetchError", ingest[j].dirty)
    /\ UNCHANGED <<wallet, portfolio, price_history, now, users, imap, pc, call, last, applied,
                   ncalls>>

\* lines 198-202: the existence check of the next candle
QueryCandle(j) ==
    /\ ingest[j].pc = "query"
    /\ LET candle == Head(ingest[j].candles)
           found == ExistingCandle(ingest[j].asset_symbol, candle.timestamp, ingest[j].interval)
       IN \E i \in (IF found = {} THEN {0} ELSE found) :
            ingest' = [ingest EXCEPT ![j].pc = "commit", ![j].existing = i,
                                     ![j].loaded = IF i = 0 THEN NoRow ELSE price_history[i]]
    /\ UNCHANGED <<wallet, portfolio, price_history, now, users, imap, pc, call, last, applied,
                   ncalls, ingested>>

\* the flush of a commit: the UPDATE of every changed object of the session
FlushDirty(dirty, history) ==
    [i \in 1..Len(history) |->
        IF \E d \in dirty : d.row = i
        THEN [history[i] EXCEPT !.open = ToStored((CHOOSE d \in dirty : d.row = i).open)]
        ELSE history[i]]

\* a candle the statements of lines 205-219 cannot handle
Malformed(candle) == candle.high = None

\* lines 204-220: the merge or the new row, and session.commit().  db_ok =
\* FALSE is the statement or the COMMIT failing in the database (a row with
\* high = None violates NOT NULL): commit() rolls back and raises,
\* `except Exception as ve` logs it and the call ends
CommitCandle(j, db_ok) ==
    /\ ingest[j].pc = "commit"
    /\ LET f == ingest[j]
           candle == Head(f.candles)
       IN /\ Malformed(candle) => (f.existing = 0 /\ ~db_ok)
          /\ IF db_ok
             THEN /\ price_history' =
                        FlushDirty({d \in f.dirty : d.row # f.existing},
                                   WrittenHistory(f.existing, f.loaded, f.asset_symbol, f.interval, candle))
                  /\ IF Tail(f.candles) = <<>>
                     THEN EndSaveOhlc(j, "ok", {})
                     ELSE /\ ingest' = [ingest EXCEPT ![j].pc = "query", ![j].candles = Tail(f.candles),
                                                      ![j].existing = 0, ![j].loaded = NoRow,
                                                      ![j].dirty = {}]
                          /\ UNCHANGED ingested
             ELSE /\ EndSaveOhlc(j, "PersistError", {})
                  /\ UNCHANGED price_history
    /\ UNCHANGED <<wallet, portfolio, now, users, imap, pc, call, last, applied, ncalls>>

\* lines 205-206 on a candle without a high: `existing_candle.open =
\* candle["open"]` is done, max(existing_candle.high, None) raises TypeError,
\* `except Exception as ve` logs it; nothing rolls the session back
MergeRaises(j) ==
    /\ ingest[j].pc = "commit"
    /\ ingest[j].existing # 0
    /\ Malformed(Head(ingest[j].candles))
    /\ EndSaveOhlc(j, "CandleError",
                   {d \in ingest[j].dirty : d.row # ingest[j].existing}
                       \cup {[row |-> ingest[j].existing, open |-> Head(ingest[j].candles).open]})
    /\ UNCHANGED <<wallet, portfolio, price_history, now, users, imap, pc, call, last, applied, ncalls>>

\* the end of `with db.get_session() as session`: the session is closed and
\* its unflushed changes are dropped
CloseIngestSession(j) ==
    /\ ingest[j].pc = "idle"
    /\ ingest[j].dirty # {}
    /\ ingest' = [ingest EXCEPT ![j].dirty = {}]
    /\ UNCHANGED <<wallet, portfolio, price_history, now, users, imap, pc, call, last, applied, ncalls,
                   ingested>>

\* ----------------------------------------------------------- specification
Init ==
    /\ wallet = [u \in Users |-> IF u \in Clients
                                 THEN [exists |-> TRUE, balance |-> INITIAL_BALANCE]
                                 ELSE [exists |-> FALSE, balance |-> 0]]
    /\ portfolio = <<>>
    /\ price_history = SeededPrices
    /\ now = 0
    /\ imap = [s \in Sessions |-> Expired]
    /\ pc = [s \in Sessions |-> "idle"]
    /\ call = [s \in Sessions |-> NoCall]
    /\ last = NoResult
    /\ applied = [u \in Users |-> 0]
    /\ ncalls = 0
    /\ ingest = [j \in Jobs |-> NoJob]
    /\ ingested = NoIngest
    /\ users = SeededUsers

AllIdle == \A s \in Sessions : pc[s] = "idle"

\* calls run to completion one at a time; a session outlives its calls
Next ==
    \/ \E s \in Sessions, u \in Users, d \in Deltas : AllIdle /\ BeginUpdateBalance(s, u, d)
    \/ \E s \in Sessions, u \in Users, t \in TradeTypes : AllIdle /\ add_transaction(s, u, t)
    \/ \E s \in Sessions : UbCommit(s)
    \/ \E s \in Sessions, db_ok \in BOOLEAN : AppendTransaction(s, db_ok)
    \/ \E s \in Sessions : UbRefresh(s)
    \/ \E s \in Sessions : Close(s)

Spec == Init /\ [][Next]_vars

\* the accounts from an empty database: create_user and update_balance, one
\* call at a time
InitUsers ==
    /\ wallet = [u \in Users |-> [exists |-> FALSE, balance |-> 0]]
    /\ portfolio = <<>>
    /\ price_history = SeededPrices
    /\ now = 0
    /\ imap = [s \in Sessions |-> Expired]
    /\ pc = [s \in Sessions |-> "idle"]
    /\ call = [s \in Sessions |-> NoCall]
    /\ last = NoResult
    /\ applied = [u \in Users |-> 0]
    /\ ncalls = 0
    /\ ingest = [j \in Jobs |-> NoJob]
    /\ ingested = NoIngest
    /\ users = [u \in Users |-> NoUser]

NextUsers ==
    \/ \E s \in Sessions, e \in Emails, r \in Roles, m \in ManagerIds :
          AllIdle /\ BeginCreateUser(s, e, r, m)
    \/ \E s \in Sessions, db_ok \in BOOLEAN : CuCommitUser(s, db_ok)
    \/ \E s \in Sessions, db_ok \in BOOLEAN : CuCommitWallet(s, db_ok)
    \/ \E s \in Sessions, u \in Users, d \in Deltas : AllIdle /\ BeginUpdateBalance(s, u, d)
    \/ \E s \in Sessions : UbCommit(s)
    \/ \E s \in Sessions : UbRefresh(s)
    \/ \E s \in Sessions : Close(s)

SpecUsers == InitUsers /\ [][NextUsers]_vars

\* the arithmetic of _handle_buy on the grid of the DECIMAL(18, 8) columns:
\* amounts, net_val, fee and balance in 1/ColumnUnit.  PostgreSQL rounds
\* what is stored to the scale of the column, ties away from zero.
ColumnUnit == 100000000
MaxFine == 60
\* amount_val from 10.00000 in steps of 0.00001
FineAmounts == {10 * ColumnUnit + (ColumnUnit \div 100000) * k : k \in 0..MaxFine}
FineBalances == {11 * ColumnUnit, 12 * ColumnUnit}

\* transaction_fee = amount_value * fee_rate as the column fee stores it
StoredFee(amount) == ToNumeric(amount, FEE_RATE_DEN)

\* one accepted buy of user u, from the price to the appended entry
FineBuy(u, amount_val) ==
    /\ AllIdle
    /\ portfolio = <<>>
    /\ wallet[u].exists
    /\ amount_val >= 10 * ColumnUnit
    /\ amount_val <= wallet[u].balance
    /\ \E trade_price \in get_price("BTC") :
          /\ trade_price # 0
          /\ portfolio' = LedgerWith(portfolio,
                              [user_id |-> u, asset_symbol |-> FullSymbol("BTC"),
                               trade_type |-> "buy",
                               qty |-> MulDiv(amount_val, FEE_RATE_DEN - 1, FEE_RATE_DEN * trade_price),
                               net_val |-> BuyNetValue(amount_val),
                               price |-> trade_price,
                               fee |-> StoredFee(amount_val)])
    /\ wallet' = [wallet EXCEPT ![u].balance = @ - amount_val]
    /\ last' = [NoResult EXCEPT !.op = "buy", !.user_id = u, !.status = "ok",
                                !.asset_symbol = FullSymbol("BTC"),
                                !.pre_wallet = wallet[u], !.data_amount_val = amount_val]
    /\ UNCHANGED <<price_history, now, imap, pc, call, applied, ncalls, ingest, ingested, users>>

\* one buy with amounts on the grid of the columns
InitFine ==
    /\ wallet \in {[u \in Users |-> IF u \in Clients
                                     THEN [exists |-> TRUE, balance |-> b]
                                     ELSE [exists |-> FALSE, balance |-> 0]] : b \in FineBalances}
    /\ portfolio = <<>>
    /\ price_history = SeededPrices
    /\ now = 0
    /\ imap = [s \in Sessions |-> Expired]
    /\ pc = [s \in Sessions |-> "idle"]
    /\ call = [s \in Sessions |-> NoCall]
    /\ last = NoResult
    /\ applied = [u \in Users |-> 0]
    /\ ncalls = 0
    /\ ingest = [j \in Jobs |-> NoJob]
    /\ ingested = NoIngest
    /\ users = SeededUsers

NextFine == \E u \in Clients, a \in FineAmounts : FineBuy(u, a)

SpecFine == InitFine /\ [][NextFine]_vars

\* the HTTP server: every request runs in its own thread on its own new
\* session (get_db_session), requests interleave between their statements;
\* /add_balance answers 400 to an amount <= 0 before it calls the service
Fresh(s) == pc[s] = "idle" /\ imap[s] = Expired

NextConc ==
    \/ \E s \in Sessions, u \in Users, d \in Deltas :
          Fresh(s) /\ d > 0 /\ BeginUpdateBalance(s, u, d)
    \/ \E s \in Sessions, u \in Users, t \in TradeTypes : Fresh(s) /\ add_transaction(s, u, t)
    \/ \E s \in Sessions : UbCommit(s)
    \/ \E s \in Sessions : UbRefresh(s)
    \/ \E s \in Sessions, db_ok \in BOOLEAN : AppendTransaction(s, db_ok)
    \/ \E s \in Sessions : Close(s)

SpecConc == Init /\ [][NextConc]_vars

\* price capture: save_ohlc calls run to completion one at a time
IngestIdle == \A j \in Jobs : ingest[j].pc = "idle"

NextIngest ==
    \/ \E j \in Jobs, a \in IngestSymbols, i \in Intervals : IngestIdle /\ BeginSaveOhlc(j, a, i)
    \/ \E j \in Jobs, p \in Payloads : FetchOhlc(j, p)
    \/ \E j \in Jobs : FetchFails(j)
    \/ \E j \in Jobs : QueryCandle(j)
    \/ \E j \in Jobs, db_ok \in BOOLEAN : CommitCandle(j, db_ok)

SpecIngest == Init /\ [][NextIngest]_vars

\* the price cache read at any time: the histories save_ohlc calls one at a
\* time can have left (one row per key, no candle of the future)
PriceCloses == {5, 7}

PriceRows ==
    {[asset_symbol |-> FullSymbol(sym), timestamp |-> ts, interval |-> i,
      open |-> c, high |-> c, low |-> c, close |-> c] :
        sym \in TradeSymbols, ts \in 0..MaxNow, i \in Intervals, c \in PriceCloses}

Histories ==
    {h \in SeqsUpTo(PriceRows, MaxRows) :
        \A i, k \in 1..Len(h) :
            (h[i].asset_symbol = h[k].asset_symbol /\ h[i].timestamp = h[k].timestamp) => i = k}

InitPrice ==
    /\ wallet = [u \in Users |-> IF u \in Clients
                                 THEN [exists |-> TRUE, balance |-> INITIAL_BALANCE]
                                 ELSE [exists |-> FALSE, balance |-> 0]]
    /\ portfolio = <<>>
    /\ price_history \in Histories
    /\ now \in 0..MaxNow
    /\ \A i \in 1..Len(price_history) : price_history[i].timestamp <= now
    /\ imap = [s \in Sessions |-> Expired]
    /\ pc = [s \in Sessions |-> "idle"]
    /\ call = [s \in Sessions |-> NoCall]
    /\ last = NoResult
    /\ applied = [u \in Users |-> 0]
    /\ ncalls = 0
    /\ ingest = [j \in Jobs |-> NoJob]
    /\ ingested = NoIngest
    /\ users = SeededUsers

NextPrice ==
    \/ \E sym \in TradeSymbols : GetPrice(sym)
    \/ Tick

SpecPrice == InitPrice /\ [][NextPrice]_vars

\* one cycle of price capture and the next: save_ohlc for one active asset
\* after the other on the session of the cycle, the exchange answering with
\* nothing, a candle, or a candle that lacks its high
CycleSymbols == {"BTC", "ETH"}

CyclePayloads ==
    { <<>>,
      <<[timestamp |-> 0, open |-> 180, high |-> 200, low |-> 180, close |-> 190]>>,
      <<[timestamp |-> 0, open |-> 190, high |-> None, low |-> 170, close |-> 180]>> }

NextCycle ==
    \/ \E j \in Jobs, a \in CycleSymbols, i \in Intervals : IngestIdle /\ BeginSaveOhlc(j, a, i)
    \/ \E j \in Jobs, p \in CyclePayloads : FetchOhlc(j, p)
    \/ \E j \in Jobs : FetchFails(j)
    \/ \E j \in Jobs : QueryCandle(j)
    \/ \E j \in Jobs, db_ok \in BOOLEAN : CommitCandle(j, db_ok)
    \/ \E j \in Jobs : MergeRaises(j)
    \/ \E j \in Jobs : CloseIngestSession(j)

SpecCycle == Init /\ [][NextCycle]_vars

\* the scheduler's tick and the manual trigger overlap: each runs save_ohlc
\* on its own session (`with db.get_session() as session`), and the calls
\* interleave between their statements
NextIngestConc ==
    \/ \E j \in Jobs, a \in IngestSymbols, i \in Intervals : BeginSaveOhlc(j, a, i)
    \/ \E j \in Jobs, p \in Payloads : FetchOhlc(j, p)
    \/ \E j \in Jobs : FetchFails(j)
    \/ \E j \in Jobs : QueryCandle(j)
    \/ \E j \in Jobs, db_ok \in BOOLEAN : CommitCandle(j, db_ok)

SpecIngestConc == Init /\ [][NextIngestConc]_vars

\* ------------------------------------------------------------------ claims
\* C1: after any sequence of update_balance calls every stored balance is
\* >= 0, and a rejected call leaves the stored balance at its pre-call value
C1_BalanceNeverNegative ==
    /\ \A u \in Users : wallet[u].exists => wallet[u].balance >= 0
    /\ (last.op = "update_balance" /\ last.status = "InsufficientFunds")
          => wallet[last.user_id] = last.pre_wallet

\* C2: an add_transaction call that ends in a failure of any kind leaves the
\* user's stored balance and the ledger as they were before the call
C2_FailedTradeLeavesState ==
    (last.op \in TradeTypes /\ last.status \notin {"ok", "none"})
        => (wallet[last.user_id] = last.pre_wallet /\ portfolio = last.pre_portfolio)

\* C3: a trade whose balance mutation fails appends no ledger entry, and a
\* trade whose ledger append fails after the balance mutation has the
\* balance back at its pre-trade value
C3_TradeAllOrNothing ==
    /\ (last.op \in {"buy", "sell"} /\ last.status \in {"InsufficientFunds", "InvalidRequestError"})
          => portfolio = last.pre_portfolio
    /\ (last.op \in {"buy", "sell"} /\ last.status = "DatabaseError")
          => wallet[last.user_id].balance = last.pre_wallet.balance

\* C4: no adjustment is lost: once every request has returned, the stored
\* balance is the initial balance plus the deltas of the update_balance
\* calls that committed
C4_NoLostUpdate ==
    (\A s \in Sessions : pc[s] = "idle")
        => \A u \in Clients : wallet[u].balance = INITIAL_BALANCE + applied[u]

\* C5: in every committed state the balance change of a running trade is
\* visible exactly if its ledger row is
LedgerWritten(s) ==
    \E i \in (Len(call[s].pre_portfolio) + 1)..Len(portfolio) : portfolio[i] = Transaction(call[s])

C5_TradeNotPartial ==
    \A s \in Sessions :
        call[s].op \in {"buy", "sell"} => (call[s].balance_committed <=> LedgerWritten(s))

\* C6: the position of every user in every asset (the sum of the signed
\* quantities of the ledger) is never negative
C6_PositionNonNegative ==
    \A u \in Users : \A a \in AssetsOf(u) : get_summary(u)[a].total_qty >= 0

\* a sell was accepted and appended
C6_Witness ==
    /\ last.op = "sell" /\ last.status = "ok"
    /\ \E i \in 1..Len(portfolio) : portfolio[i].trade_type = "sell" /\ portfolio[i].qty < 0

\* C7: concurrent trades of one user are serialized: together they never
\* sell more than the position holds nor take more out of the wallet than
\* was put in
C7_TradesSerialized ==
    \A u \in Clients :
        /\ \A a \in AssetsOf(u) : get_summary(u)[a].total_qty >= 0
        /\ INITIAL_BALANCE + applied[u] >= 0

\* C8: a candle merged into the row its key already has leaves open as
\* stored, and sets high to the larger and low to the smaller of the stored
\* and the new value, and close to the new close
C8_MergeKeepsOpen ==
    [][\A j \in Jobs :
         (CommitCandle(j, TRUE) /\ ingest[j].existing # 0) =>
             LET stored == price_history[ingest[j].existing]
                 merged == price_history'[ingest[j].existing]
                 candle == Head(ingest[j].candles)
             IN /\ merged.open = stored.open
                /\ merged.high = Max(stored.high, ToStored(candle.high))
                /\ merged.low = Min(stored.low, ToStored(candle.low))
                /\ merged.close = ToStored(candle.close)]_vars

\* C9: a save_ohlc call that got the candles of the call before it, for the
\* same symbol and interval, both without a failure, leaves the rows as that
\* call left them
C9_IngestIdempotent ==
    (IngestIdle /\ ingested.status = "ok" /\ ingested.repeated)
        => price_history = ingested.pre_history

\* the repeated answer held two different candles of one bucket
C9_Witness ==
    /\ IngestIdle /\ ingested.status = "ok" /\ ingested.repeated
    /\ Len(ingested.payload) = 2
    /\ ingested.payload[1].timestamp = ingested.payload[2].timestamp
    /\ ingested.payload[1] # ingested.payload[2]

\* C10: the price history holds at most one row for each
\* (asset_symbol, interval, timestamp)
C10_OneRowPerKey ==
    \A i, k \in 1..Len(price_history) :
        (/\ price_history[i].asset_symbol = price_history[k].asset_symbol
         /\ price_history[i].interval = price_history[k].interval
         /\ price_history[i].timestamp = price_history[k].timestamp) => i = k

\* a later call ended whose answer named one stored bucket twice, with
\* another bucket stored beside it
C10_Witness ==
    /\ IngestIdle /\ ingested.status = "ok" /\ ncalls >= 2
    /\ Len(ingested.payload) = 2
    /\ ingested.payload[1].timestamp = ingested.payload[2].timestamp
    /\ Len(price_history) >= 2

\* C12: get_price returns the close of the newest candle of the symbol within
\* the last hour, else the close of the newest candle of the symbol, and
\* fails only when the symbol has no candle
WithinLastHour(sym) ==
    {i \in 1..Len(price_history) :
        /\ price_history[i].asset_symbol = FullSymbol(sym)
        /\ now - PRICE_WINDOW < price_history[i].timestamp
        /\ price_history[i].timestamp <= now}

EverStored(sym) ==
    {i \in 1..Len(price_history) : price_history[i].asset_symbol = FullSymbol(sym)}

NewestClose(S) ==
    {price_history[i].close : i \in {k \in S : \A j \in S : price_history[j].timestamp <= price_history[k].timestamp}}

ResolvedPrice(sym) ==
    IF WithinLastHour(sym) # {} THEN NewestClose(WithinLastHour(sym))
    ELSE NewestClose(EverStored(sym))

C12_PriceResolution ==
    /\ \A sym \in TradeSymbols :
          /\ get_price(sym) = ResolvedPrice(sym)
          /\ Cardinality(get_price(sym)) <= 1
          /\ get_price(sym) = {} <=> EverStored(sym) = {}
    /\ (last.op = "get_price" /\ last.status = "ok")
          => \E sym \in TradeSymbols : ResolvedPrice(sym) = {last.value}
    /\ (last.op = "get_price" /\ last.status = "PriceUnavailable")
          => \E sym \in TradeSymbols : EverStored(sym) = {}

\* get_price answered with the close of a candle older than one hour, of
\* the only symbol that has candles, the older candle having another close
C12_Witness ==
    /\ last.op = "get_price" /\ last.status = "ok"
    /\ Len(price_history) = 2
    /\ \A i \in 1..Len(price_history) :
          /\ price_history[i].asset_symbol = "BTCUSDT"
          /\ price_history[i].timestamp <= now - PRICE_WINDOW
    /\ price_history[1].close # price_history[2].close

\* C13: a save_ohlc call whose fetch failed ends without raising and with
\* the rows as they were when it began; a call that failed while it
\* persisted a candle raises to its caller
C13_IngestErrors ==
    /\ (IngestIdle /\ ingested.status = "FetchError")
          => (~ingested.raised /\ price_history = ingested.pre_history)
    /\ ingested.status = "PersistError" => ingested.raised

\* C14: a failure while one symbol is ingested stays with that symbol: the
\* ingestion of another symbol on the session of the cycle writes its own
\* candles and leaves the committed rows of every other symbol as they are
C14_FailureStaysWithSymbol ==
    [][\A j \in Jobs :
         CommitCandle(j, TRUE) =>
             \A i \in 1..Len(price_history) :
                 price_history[i].asset_symbol # ingest[j].asset_symbol
                     => price_history'[i] = price_history[i]]_vars

\* C15: update_balance on a user without a wallet row creates the row at 0 and,
\* for a non-negative result, persists delta and returns it; on an existing
\* wallet a successful call stores and returns old balance + delta
C15_UpdateBalanceCreates ==
    last.op = "update_balance" =>
        LET u == last.user_id IN
        IF ~last.pre_wallet.exists
        THEN last.amount >= 0 =>
                /\ last.status = "ok"
                /\ last.value = last.amount
                /\ wallet[u].exists
                /\ wallet[u].balance = last.amount
        ELSE last.status = "ok" =>
                /\ wallet[u].balance = last.pre_wallet.balance + last.amount
                /\ last.value = wallet[u].balance

\* C16: with a price available a buy is accepted if and only if
\* MINIMUM_INVESTMENT <= amount_val <= the user's balance, both bounds
\* inclusive: below the minimum it fails BelowMinimum, above the balance it
\* fails InsufficientFunds and leaves the balance and the ledger as they were
BuyValidated(r) ==
    r.op = "buy" /\ r.status \notin {"none", "InvalidRequest", "PriceUnavailable"}

C16_BuyAcceptedInRange ==
    BuyValidated(last) =>
        /\ last.status = "BelowMinimum" <=> last.data_amount_val < MINIMUM_INVESTMENT
        /\ last.status = "InsufficientFunds" <=>
              /\ last.data_amount_val >= MINIMUM_INVESTMENT
              /\ last.data_amount_val > last.pre_wallet.balance
        /\ last.status = "InsufficientFunds" =>
              (wallet[last.user_id] = last.pre_wallet /\ portfolio = last.pre_portfolio)

\* C17: a sell request is valid if and only if it carries an explicit qty or
\* a perc_withdraw in [0, 100]: with neither, or with a perc_withdraw outside
\* the range, it fails InvalidRequest and changes nothing, and every
\* perc_withdraw from 0 to 100 given without qty is a valid request
C17_SellRequestValidity ==
    (last.op = "sell" /\ last.status # "none") =>
        /\ (last.data_qty = None /\ last.data_perc_withdraw = None)
              => last.status = "InvalidRequest"
        /\ (last.data_perc_withdraw # None /\ last.data_perc_withdraw \notin 0..PERCENT)
              => last.status = "InvalidRequest"
        /\ last.status = "InvalidRequest"
              => (wallet[last.user_id] = last.pre_wallet /\ portfolio = last.pre_portfolio)
        /\ (last.data_qty = None /\ last.data_perc_withdraw \in 0..PERCENT)
              => last.status # "InvalidRequest"

\* C18: a sell fails NoPosition when the user has no ledger entry for the
\* asset or holds a quantity <= 0, and InsufficientQuantity when an explicit
\* qty is larger than the held quantity (a qty equal to it is accepted); both
\* failures leave the balance and the ledger as they were
EntriesOf(ledger, u, a) ==
    SelectSeq(ledger, LAMBDA r : r.user_id = u /\ r.asset_symbol = a)

HeldBefore(r) == SumField(EntriesOf(r.pre_portfolio, r.user_id, r.asset_symbol), "qty")

SellValidated(r) ==
    r.op = "sell" /\ r.status \notin {"none", "InvalidRequest", "PriceUnavailable"}

C18_SellAgainstPosition ==
    SellValidated(last) =>
        /\ last.status = "NoPosition" <=>
              \/ EntriesOf(last.pre_portfolio, last.user_id, last.asset_symbol) = <<>>
              \/ HeldBefore(last) <= 0
        /\ last.status = "InsufficientQuantity" <=>
              /\ HeldBefore(last) > 0
              /\ last.data_qty # None
              /\ last.data_qty > HeldBefore(last)
        /\ last.status \in {"NoPosition", "InsufficientQuantity"} =>
              (wallet[last.user_id] = last.pre_wallet /\ portfolio = last.pre_portfolio)

\* a sell of exactly the held quantity was accepted and appended
C18_Witness ==
    /\ last.op = "sell" /\ last.status = "ok"
    /\ last.data_qty = HeldBefore(last)
    /\ Len(portfolio) = Len(last.pre_portfolio) + 1

\* C19: the ledger is append-only: an accepted trade appends exactly one
\* entry after the entries that were there, a rejected or failed call
\* appends none, and no call modifies or deletes an entry
C19_LedgerAppendOnly ==
    /\ \A s \in Sessions : pc[s] # "idle" => portfolio = call[s].pre_portfolio
    /\ (last.op \in {"buy", "sell"} /\ last.status = "ok") =>
          /\ Len(portfolio) = Len(last.pre_portfolio) + 1
          /\ SubSeq(portfolio, 1, Len(last.pre_portfolio)) = last.pre_portfolio
          /\ portfolio[Len(portfolio)].user_id = last.user_id
          /\ portfolio[Len(portfolio)].asset_symbol = last.asset_symbol
          /\ portfolio[Len(portfolio)].trade_type = last.op
    /\ (last.op = "update_balance" \/ last.status \notin {"ok", "none"}) =>
          portfolio = last.pre_portfolio

\* a buy was appended to a ledger that already held entries
C19_Witness ==
    /\ last.op = "buy" /\ last.status = "ok"
    /\ last.pre_portfolio # <<>>
    /\ portfolio = Append(last.pre_portfolio, portfolio[Len(portfolio)])

\* C20: get_pnl reports for each asset pnl = received - invested, invested the
\* sum of net_val of the buy entries and received the sign-flipped sum of
\* net_val of the sell entries; a position with current_qty > 0 adds
\* current_price * current_qty at the resolved price, a closed position
\* (current_qty = 0) reports current_price 0 and no unrealized term
Invested(u, a) == SumField(SelectSeq(EntriesOf(portfolio, u, a), LAMBDA r : r.trade_type = "buy"), "net_val")

Received(u, a) == -SumField(SelectSeq(EntriesOf(portfolio, u, a), LAMBDA r : r.trade_type = "sell"), "net_val")

C20_PnlFormula ==
    \A u \in Users : \A rows \in get_pnl(u) : \A a \in AssetsOf(u) :
        LET row == rows[a] IN
        /\ row.total_invested = Invested(u, a)
        /\ row.total_received = Received(u, a)
        /\ row.current_qty = SumField(EntriesOf(portfolio, u, a), "qty")
        /\ row.current_qty > 0 =>
              /\ row.current_price \in get_price(BaseSymbol(a))
              /\ row.pnl = Received(u, a) - Invested(u, a) + row.current_price * row.current_qty
        /\ row.current_qty = 0 =>
              /\ a \notin PnlPriced(u)
              /\ row.current_price = 0
              /\ row.pnl = Received(u, a) - Invested(u, a)

\* get_pnl reports a position that was bought and sold completely
C20_Witness ==
    \E u \in Users : \E rows \in get_pnl(u) : \E a \in AssetsOf(u) :
        /\ rows[a].current_qty = 0 /\ rows[a].current_price = 0
        /\ rows[a].total_invested > 0 /\ rows[a].total_received > 0
        /\ AllIdle

\* C21: get_summary reports, for each asset the user has ledger entries for,
\* total_qty = the signed sum of the quantities, total_fees = the sum of the
\* fees, and total_value = 0 when the signed quantity sum is 0 and otherwise
\* the absolute value of the signed sum of net_val
C21_SummaryAggregates ==
    \A u \in Users :
        /\ DOMAIN get_summary(u) =
              {portfolio[i].asset_symbol : i \in {k \in 1..Len(portfolio) : portfolio[k].user_id = u}}
        /\ \A a \in DOMAIN get_summary(u) :
              LET entries == EntriesOf(portfolio, u, a)
                  row == get_summary(u)[a]
              IN  /\ row.total_qty = SumField(entries, "qty")
                  /\ row.total_fees = SumField(entries, "fee")
                  /\ row.total_value = IF SumField(entries, "qty") = 0 THEN 0
                                       ELSE Abs(SumField(entries, "net_val"))

\* a closed position whose net_val entries do not cancel is reported with
\* total_value 0
C21_Witness ==
    /\ AllIdle
    /\ \E u \in Users : \E a \in DOMAIN get_summary(u) :
          /\ get_summary(u)[a].total_qty = 0
          /\ get_summary(u)[a].total_value = 0
          /\ SumField(EntriesOf(portfolio, u, a), "net_val") # 0
          /\ get_summary(u)[a].total_fees > 0

\* C22: create_user with role client creates exactly one wallet for the new
\* user, seeded with the initial balance 10.00, so that get_balance right
\* after the creation returns 10.00; with any other role it creates no wallet
C22_ClientGetsWallet ==
    (last.op = "create_user" /\ last.status = "ok") =>
        IF last.role = "client"
        THEN /\ wallet[last.user_id] = [exists |-> TRUE, balance |-> INITIAL_BALANCE]
             /\ \A s \in Sessions : get_balance(s, last.user_id) = INITIAL_BALANCE
        ELSE ~wallet[last.user_id].exists

\* a client was created after a user of another role
C22_Witness ==
    /\ last.op = "create_user" /\ last.status = "ok" /\ last.role = "client"
    /\ wallet[last.user_id].exists
    /\ \E u \in Users : users[u].exists /\ users[u].role # "client" /\ ~wallet[u].exists

\* C23: an accepted buy of amount_val at trade_price records
\* fee = amount_val * FEE_RATE, net_value = amount_val - fee and
\* qty = net_value / trade_price, and debits the balance by the whole
\* amount_val; for amount_val 100 at price 50 the fee is 0.01, net_value
\* 99.99 and qty 1.9998
C23_BuyAmounts ==
    /\ (last.op = "buy" /\ last.status = "ok") =>
          LET entry == portfolio[Len(portfolio)] IN
          /\ entry.fee * FEE_RATE_DEN = last.data_amount_val * Unit
          /\ entry.fee % Unit = 0
          /\ entry.net_val = last.data_amount_val - entry.fee \div Unit
          /\ entry.price \in get_price(BaseSymbol(last.asset_symbol))
          /\ Abs(2 * (entry.qty * entry.price - entry.net_val)) <= entry.price
          /\ wallet[last.user_id].balance = last.pre_wallet.balance - last.data_amount_val
    /\ TransactionFee(100 * Unit) = Unit * (Unit \div 100)
    /\ BuyNetValue(100 * Unit) = 100 * Unit - Unit \div 100
    /\ BuyQty(100 * Unit, 50) = 2 * Unit - 2

\* a buy of 10 at the price 5 was appended and paid
C23_Witness ==
    /\ last.op = "buy" /\ last.status = "ok" /\ last.data_amount_val = 10 * Unit
    /\ portfolio[Len(portfolio)].qty = 2 * Unit - 2
    /\ wallet[last.user_id].balance = last.pre_wallet.balance - 10 * Unit

C25_PercentSell ==
    (last.op = "sell" /\ last.status = "ok" /\ ~Truthy(last.data_qty)) =>
        LET entry == portfolio[Len(portfolio)]
            held == HeldBefore(last)
        IN  /\ entry.qty < 0
            /\ Abs(2 * (-entry.qty * PERCENT - held * last.data_perc_withdraw)) <= PERCENT
            /\ last.data_perc_withdraw = PERCENT =>
                  /\ get_summary(last.user_id)[last.asset_symbol].total_qty = 0
                  /\ get_summary(last.user_id)[last.asset_symbol].total_value = 0

\* C26: an accepted sell of qty at trade_price computes
\* amount_val = qty * trade_price, fee = amount_val * FEE_RATE and
\* net_value = amount_val - fee, credits the balance by net_value rounded to
\* 3 decimal places, and appends an entry with quantity -qty, trade_type
\* sell and net_value equal to minus the credited amount
C26_SellAmounts ==
    (last.op = "sell" /\ last.status = "ok") =>
        LET entry == portfolio[Len(portfolio)]
            credited == wallet[last.user_id].balance - last.pre_wallet.balance
        IN  /\ entry.trade_type = "sell"
            /\ entry.price \in get_price(BaseSymbol(last.asset_symbol))
            /\ entry.net_val = -credited
            /\ credited % (Unit \div Pow10(ROUND_DIGITS)) = 0
            /\ Truthy(last.data_qty) =>
                  LET amount_val == last.data_qty * entry.price IN
                  /\ entry.qty = -last.data_qty
                  /\ entry.fee * FEE_RATE_DEN = amount_val * Unit
                  /\ 2 * Abs(credited * FEE_RATE_DEN - amount_val * (FEE_RATE_DEN - 1))
                        <= FEE_RATE_DEN * (Unit \div Pow10(ROUND_DIGITS))

\* C27: in every trade the execution price is resolved from the stored
\* candles before any balance write begins and is the price recorded in the
\* ledger entry; a trade for a symbol without a stored candle aborts with
\* PriceUnavailable and has written neither the balance nor the ledger; the
\* price of a trade is never one that is not stored
StoredCloses(fullsym) ==
    {price_history[i].close : i \in {k \in 1..Len(price_history) :
                                        price_history[k].asset_symbol = fullsym}}

C27_PriceBeforeBalance ==
    /\ \A s \in Sessions :
          (pc[s] # "idle" /\ call[s].op \in {"buy", "sell"}) =>
              /\ call[s].price \in StoredCloses(call[s].asset_symbol)
              /\ pc[s] = "ub_commit" => wallet[call[s].user_id] = call[s].pre_wallet
              /\ portfolio = call[s].pre_portfolio
    /\ (last.op \in {"buy", "sell"} /\ last.status \notin {"none", "InvalidRequest"}) =>
          /\ last.status = "PriceUnavailable" <=> StoredCloses(last.asset_symbol) = {}
          /\ last.status = "PriceUnavailable" =>
                (wallet[last.user_id] = last.pre_wallet /\ portfolio = last.pre_portfolio)
          /\ last.status = "ok" =>
                portfolio[Len(portfolio)].price \in StoredCloses(last.asset_symbol)

\* a buy of a symbol without a stored candle was refused
C27_Witness ==
    /\ last.op = "buy" /\ last.status = "PriceUnavailable"
    /\ last.asset_symbol = "ETHUSDT"
    /\ wallet[last.user_id] = last.pre_wallet /\ portfolio = last.pre_portfolio
    /\ portfolio # <<>>

\* C28: a rejected adjustment does not contaminate later operations: after
\* update_balance failed for insufficient funds, get_balance on that session
\* still returns the stored balance, and what later calls on the session
\* commit is their own change only, so that the stored balance is the initial
\* balance plus the deltas of the calls that committed
C28_RejectedNotWritten ==
    /\ \A s \in Sessions : \A u \in Users :
          (pc[s] = "idle" /\ wallet[u].exists) => get_balance(s, u) = wallet[u].balance
    /\ AllIdle => \A u \in Clients : wallet[u].balance = INITIAL_BALANCE + applied[u]

\* C29: every sell the service accepts strictly decreases the position of
\* the user in the asset (the recorded quantity is < 0) and never decreases
\* the balance of the user, whatever qty the request schema lets through
C29_SellDecreasesPosition ==
    (last.op = "sell" /\ last.status = "ok") =>
        /\ portfolio[Len(portfolio)].qty < 0
        /\ SumField(EntriesOf(portfolio, last.user_id, last.asset_symbol), "qty")
              < HeldBefore(last)
        /\ wallet[last.user_id].balance >= last.pre_wallet.balance

\* C30: wallet and ledger stay reconciled: after deposits and accepted trades
\* run one at a time the balance is the balance before them minus, for every
\* buy entry, net_val + fee, plus, for every sell entry, -net_val; each buy
\* removes exactly net_val + fee
LedgerCash(ledger) ==
    SumField(SelectSeq(ledger, LAMBDA r : r.trade_type = "sell"), "net_val")
      + SumField(SelectSeq(ledger, LAMBDA r : r.trade_type = "buy"), "net_val")
      + SumField(SelectSeq(ledger, LAMBDA r : r.trade_type = "buy"), "fee")

C30_WalletLedgerReconciled ==
    (last.op = "buy" /\ last.status = "ok") =>
        wallet[last.user_id].balance
            = last.pre_wallet.balance - LedgerCash(EntriesOf(portfolio, last.user_id, last.asset_symbol))

\* C11: two overlapping save_ohlc calls for one symbol and interval leave
\* exactly one row per bucket
C11_OverlapOneRowPerBucket ==
    IngestIdle =>
        \A i, k \in 1..Len(price_history) :
            (/\ price_history[i].asset_symbol = price_history[k].asset_symbol
             /\ price_history[i].interval = price_history[k].interval
             /\ price_history[i].timestamp = price_history[k].timestamp) => i = k
====
